---------------------------- MODULE Spec2Model ----------------------------
(***************************************************************************)
(* A model of src/job.go (package jobsd): the reflective handler binding    *)
(* JobFunc (check, paramsCount, execute), the retry-policy record           *)
(* JobContainer with its chained setters, and the gob-serialised argument   *)
(* list Args (Value, Scan).                                                 *)
(*                                                                          *)
(* Go values held in an interface{} are records [t |-> dynamic type,        *)
(* v |-> payload]; the nil interface is NilIface.  A reflect.Value returned *)
(* by a call additionally carries its static type st.                       *)
(***************************************************************************)
EXTENDS Integers, Sequences, FiniteSets, TLC

VARIABLES
    \* ---- JobFunc ----
    jobFunc,      \* JobFunc.jobFunc: the bound reflect.Value
    op,           \* last operation run on the binding: "none", "check", "execute"
    params,       \* the argument list built for the job and handed to the operations
    ret,          \* the error value the operation returned (NilIface = nil)
    outcome,      \* "none", "returned", or "panicked" (the operation unwound)
    calls,        \* argument lists the bound callable received, in order
    callOutcome,  \* what the callable did: "none", "returned", "panicked"
    callRes,      \* the reflect.Values the callable returned
    \* ---- JobContainer ----
    containers,   \* descriptor -> JobContainer struct
    lastSet,      \* history: descriptor -> setter -> [set, arg] of its last call
    lastCall,     \* history: the last configuration call [d, f, arg]
    cfgRet,       \* the *JobContainer the last configuration call returned
    \* ---- Args ----
    p,            \* the Args that Scan decodes into
    stored,       \* the driver.Value produced by the last Value call
    src,          \* the Args built for persisting, the receiver of Value
    valueErr,     \* the error the last Value call returned
    scanErr,      \* the error the last Scan call returned
    scanned       \* history: "valued" once stored holds src.Value(),
                  \* "stored" once p holds the Scan of that value, else "none"

funcVars == <<jobFunc, op, params, ret, outcome, calls, callOutcome, callRes>>
cfgVars  == <<containers, lastSet, lastCall, cfgRet>>
argVars  == <<p, stored, src, valueErr, scanErr, scanned>>
vars     == <<funcVars, cfgVars, argVars>>

-----------------------------------------------------------------------------
\* Bounds of the model.
MaxParams == 2      \* longest declared parameter list of a bound function
MaxArgs   == 3      \* longest argument list handed to check / execute

-----------------------------------------------------------------------------
\* Go values and types.

NilIface == [t |-> "nil", v |-> ""]

errorsNew(msg) == [t |-> "errorString", v |-> msg]

\* Types a bound function may declare for a parameter.  MyInt is a defined
\* type whose underlying type is int; any is interface{}.
ParamTypes == {"int", "MyInt", "string", "any"}

\* Values a caller may put in an argument list ([]interface{}).
ArgValues ==
    { NilIface,
      [t |-> "int",    v |-> "3"],
      [t |-> "MyInt",  v |-> "3"],
      [t |-> "string", v |-> "x"] }

\* reflect.Type.Kind()
TypeKind(ty) ==
    CASE ty = "int"    -> "Int"
      [] ty = "MyInt"  -> "Int"
      [] ty = "string" -> "String"
      [] ty = "any"    -> "Interface"
      [] ty = "error"  -> "Interface"
      [] ty = "ptrErr" -> "Ptr"
      [] OTHER         -> "Invalid"

\* reflect.ValueOf(x).Kind(): the kind of the dynamic type, Invalid for nil.
ValueKind(x) == IF x = NilIface THEN "Invalid" ELSE TypeKind(x.t)

\* reflect.Type.Implements(errorInterface): error itself, and *MyErr, a
\* pointer type with an Error() string method.
Implements(ty) == ty \in {"error", "ptrErr", "errorString"}

SeqsUpTo(S, n) == UNION { [1..k -> S] : k \in 0..n }

\* Return lists a bound function may declare.
OutLists == { <<>>, <<"error">>, <<"ptrErr">>, <<"int">>, <<"error", "error">> }

\* NewJobFunc(theFunc): theFunc may be a (non-nil, non-variadic) function,
\* a non-function value (kind Int), or nil (the zero reflect.Value, kind
\* Invalid).
Bindings ==
    { [kind |-> "Func", in |-> i, out |-> o] :
          i \in SeqsUpTo(ParamTypes, MaxParams), o \in OutLists }
    \cup { [kind |-> "Int",     in |-> <<>>, out |-> <<>>],
           [kind |-> "Invalid", in |-> <<>>, out |-> <<>>] }

NewJobFunc(theFunc) == theFunc

-----------------------------------------------------------------------------
\* JobFunc.check

\* The loop of check: the first position at or after i whose argument kind
\* differs from the declared parameter kind makes it return an error.
RECURSIVE kindsLoop(_, _, _)
kindsLoop_skipFirst(j, args, i) ==
    IF i >= Len(j.in) THEN NilIface
    ELSE IF ValueKind(args[i + 1]) # TypeKind(j.in[i + 1]) /\ i # 0
         THEN errorsNew("the arg(s) types do not match job args types")
         ELSE kindsLoop(j, args, i + 1)
kindsLoop(j, args, i) ==
    IF i >= Len(j.in) THEN NilIface
    ELSE IF ValueKind(args[i + 1]) # TypeKind(j.in[i + 1])
         THEN errorsNew("the arg(s) types do not match job args types")
         ELSE kindsLoop(j, args, i + 1)

\* The return-shape tests of check (lines 27-36).
checkReturn_anyCount(j) ==
    IF Len(j.out) < 1
    THEN errorsNew("jobFunc needs to return one error")
    ELSE IF ~Implements(j.out[1])
         THEN errorsNew("jobFunc return type needs to be an error")
         ELSE NilIface
checkReturn(j) ==
    IF Len(j.out) # 1
    THEN errorsNew("jobFunc needs to return one error")
    ELSE IF ~Implements(j.out[1])
         THEN errorsNew("jobFunc return type needs to be an error")
         ELSE NilIface

check(j, args) ==
    IF j.kind # "Func" THEN errorsNew("jobFunc is not a function")
    ELSE IF checkReturn(j) # NilIface THEN checkReturn(j)
    ELSE IF Len(j.in) # Len(args)
         THEN errorsNew("the number of args do not match the jobs args")
         ELSE kindsLoop(j, args, 0)

-----------------------------------------------------------------------------
\* JobFunc.paramsCount and JobFunc.execute

\* reflect.Value.Type().NumIn() panics on the zero Value and on a
\* non-function type.
paramsCountPanics(j) == j.kind # "Func"
paramsCount(j) == Len(j.in)

\* reflect.Type.AssignableTo as reflect.Value.Call applies it to an
\* argument: identical types, or an interface{} parameter, which every
\* type implements.
AssignableTo(argType, paramType) == argType = paramType \/ paramType = "any"

\* reflect.Value.Call(in) reaches the function's code only for valid
\* (non-zero) argument Values, each assignable to its parameter type;
\* otherwise it panics before the call.
CallReaches(j, in) ==
    \A k \in 1..Len(in) :
        /\ ValueKind(in[k]) # "Invalid"
        /\ AssignableTo(in[k].t, j.in[k])

\* What a function body may return for one declared result type.
ReturnValues(ty) ==
    CASE ty = "error"  -> { [st |-> "error", t |-> "nil",         v |-> ""],
                            [st |-> "error", t |-> "errorString", v |-> "boom"],
                            [st |-> "error", t |-> "ptrErr",      v |-> "nilptr"] }
      [] ty = "ptrErr" -> { [st |-> "ptrErr", t |-> "ptrErr", v |-> "nilptr"],
                            [st |-> "ptrErr", t |-> "ptrErr", v |-> "p1"] }
      [] OTHER         -> { [st |-> "int", t |-> "int", v |-> "0"] }

\* What the bound function's body does when it runs: it panics, or it
\* returns one value per declared result.
Behaviours(j) ==
    { [panics |-> TRUE, res |-> <<>>] }
    \cup { [panics |-> FALSE, res |-> r] :
             r \in { s \in [1..Len(j.out) -> UNION { ReturnValues(ty) : ty \in {"error", "ptrErr", "int"} }] :
                       \A k \in 1..Len(j.out) :
                           /\ s[k] \in ReturnValues(j.out[k])
                           /\ (k > 1 => s[k].t = "nil") } }

\* reflect.Value.Interface(): the value boxed in an interface{}; the static
\* type is lost, a nil interface stays nil.
Interface(rv) == [t |-> rv.t, v |-> rv.v]

\* x.(error): ok exactly when x is a non-nil interface whose dynamic type
\* has the Error method.
IsError(x) == x # NilIface /\ Implements(x.t)

\* Lines 69-76 of execute: the result of a completed call.
resultOf(res) ==
    IF Len(res) # 1
    THEN errorsNew("func does not return a value")
    ELSE IF IsError(Interface(res[1])) THEN Interface(res[1]) ELSE NilIface

\* execute(params) when the callable behaves as beh: the fields of the next
\* state.
execute(j, args, beh) ==
    IF paramsCountPanics(j)
    THEN [ret |-> NilIface, outcome |-> "panicked", calls |-> <<>>,
          callOutcome |-> "none", callRes |-> <<>>]
    ELSE IF paramsCount(j) # Len(args)
    THEN [ret |-> errorsNew("func parameters mismatch"), outcome |-> "returned",
          calls |-> <<>>, callOutcome |-> "none", callRes |-> <<>>]
    ELSE IF ~CallReaches(j, args)
    THEN [ret |-> NilIface, outcome |-> "panicked", calls |-> <<>>,
          callOutcome |-> "none", callRes |-> <<>>]
    ELSE IF beh.panics
    THEN [ret |-> NilIface, outcome |-> "panicked", calls |-> <<args>>,
          callOutcome |-> "panicked", callRes |-> <<>>]
    ELSE [ret |-> resultOf(beh.res), outcome |-> "returned", calls |-> <<args>>,
          callOutcome |-> "returned", callRes |-> beh.res]

InitFunc ==
    /\ jobFunc \in { NewJobFunc(f) : f \in Bindings }
    /\ op = "none"
    /\ params = <<>>
    /\ ret = NilIface
    /\ outcome = "none"
    /\ calls = <<>>
    /\ callOutcome = "none"
    /\ callRes = <<>>

\* The caller builds the argument list ([]interface{}) one element at a time.
AppendArg ==
    \E x \in ArgValues :
        /\ Len(params) < MaxArgs
        /\ params' = Append(params, x)
        /\ op' = "none"
        /\ ret' = NilIface
        /\ outcome' = "none"
        /\ calls' = <<>>
        /\ callOutcome' = "none"
        /\ callRes' = <<>>
        /\ UNCHANGED jobFunc

Check ==
    /\ op' = "check"
    /\ ret' = check(jobFunc, params)
    /\ outcome' = "returned"
    /\ calls' = <<>>
    /\ callOutcome' = "none"
    /\ callRes' = <<>>
    /\ UNCHANGED <<jobFunc, params>>

Execute ==
    \E beh \in Behaviours(jobFunc) :
        LET r == execute(jobFunc, params, beh) IN
        /\ op' = "execute"
        /\ ret' = r.ret
        /\ outcome' = r.outcome
        /\ calls' = r.calls
        /\ callOutcome' = r.callOutcome
        /\ callRes' = r.callRes
        /\ UNCHANGED <<jobFunc, params>>

-----------------------------------------------------------------------------
\* JobContainer and its chained setters.

MaxPolicy == 1      \* largest timeout / limit a configuration call is given

Descs == {"d1", "d2"}
Setters == {"RetryTimeout", "RetryErrorLimit", "RetryTimeoutLimit"}

\* time.Duration and int arguments of the setters; negative values included.
PolicyValues == (0 - 1)..MaxPolicy

\* The *JobFunc each descriptor was built around.
handlerOf(d) == IF d = "d1" THEN "jobFunc1" ELSE "jobFunc2"

\* The field assignments of the three setters.
RetryTimeout(c, timeout) == [c EXCEPT !.retryTimeout = timeout]

RetryErrorLimit_wrongField(c, limit) == [c EXCEPT !.retryOnTimeoutLimit = limit]
RetryErrorLimit(c, limit) == [c EXCEPT !.retryOnErrorLimit = limit]

RetryTimeoutLimit(c, limit) == [c EXCEPT !.retryOnTimeoutLimit = limit]

InitContainer ==
    /\ containers = [d \in Descs |->
                       [jobFunc |-> handlerOf(d), retryTimeout |-> 0,
                        retryOnErrorLimit |-> 0, retryOnTimeoutLimit |-> 0]]
    /\ lastSet = [d \in Descs |-> [f \in Setters |-> [set |-> FALSE, arg |-> 0]]]
    /\ lastCall = [d |-> "none", f |-> "none", arg |-> 0]
    /\ cfgRet = "none"

Configured(d, f, arg) ==
    /\ lastSet' = [lastSet EXCEPT ![d][f] = [set |-> TRUE, arg |-> arg]]
    /\ lastCall' = [d |-> d, f |-> f, arg |-> arg]

CallRetryTimeout ==
    \E d \in Descs : \E timeout \in PolicyValues :
        /\ containers' = [containers EXCEPT ![d] = RetryTimeout(@, timeout)]
        /\ cfgRet' = d
        /\ Configured(d, "RetryTimeout", timeout)

CallRetryErrorLimit ==
    \E d \in Descs : \E limit \in PolicyValues :
        /\ containers' = [containers EXCEPT ![d] = RetryErrorLimit(@, limit)]
        /\ cfgRet' = d
        /\ Configured(d, "RetryErrorLimit", limit)

CallRetryTimeoutLimit ==
    \E d \in Descs : \E limit \in PolicyValues :
        /\ containers' = [containers EXCEPT ![d] = RetryTimeoutLimit(@, limit)]
        /\ cfgRet' = d
        /\ Configured(d, "RetryTimeoutLimit", limit)

-----------------------------------------------------------------------------
\* Args: Value (gob-encode to a string) and Scan (gob-decode from a string).
\*
\* An element of an Args is [t |-> dynamic type, v |-> payload], the payload
\* a sequence of integers: <<n>> for the int n, <<0>> or <<1>> for a bool,
\* the character codes for a string, <<>> for the struct T{}.  The encoded
\* string is a sequence of integers.

MaxLen == 2         \* longest Args handed to Value

\* Types gob has registered for transmission inside an interface value; the
\* struct type T was never passed to gob.Register.
Registered == {"int", "string", "bool"}

GobValues ==
    { [t |-> "int",    v |-> <<0 - 1>>],
      [t |-> "int",    v |-> <<3>>],
      [t |-> "string", v |-> <<>>],
      [t |-> "string", v |-> <<97, 98>>],
      [t |-> "bool",   v |-> <<1>>],
      [t |-> "T",      v |-> <<>>] }

\* The name gob sends in front of an interface element's value.
TypeTag(ty) ==
    CASE ty = "int" -> 1 [] ty = "string" -> 2 [] ty = "bool" -> 3 [] OTHER -> 0

TagType(n) ==
    CASE n = 1 -> "int" [] n = 2 -> "string" [] n = 3 -> "bool" [] OTHER -> "T"

\* The type-definition message gob sends for []interface{} before the value.
TypeDescriptor == <<255, 129>>

\* gob's signed integer: the magnitude shifted left, bit 0 the sign.
encodeInt(i) == IF i < 0 THEN 2 * ((0 - i) - 1) + 1 ELSE 2 * i
decodeInt(u) == IF u % 2 = 1 THEN 0 - ((u - 1) \div 2) - 1 ELSE u \div 2

\* One interface element: its type name, then its value.
encodeInterface(e) ==
    <<TypeTag(e.t)>> \o
    CASE e.t = "int"    -> <<encodeInt(e.v[1])>>
      [] e.t = "bool"   -> e.v
      [] e.t = "string" -> <<Len(e.v)>> \o e.v
      [] OTHER          -> <<>>

RECURSIVE encodeArray(_)
encodeArray(a) ==
    IF a = <<>> THEN <<>> ELSE encodeInterface(Head(a)) \o encodeArray(Tail(a))

\* gob.Encoder.Encode(p): the type descriptor is written first; the value
\* message is written only when every element's type is registered,
\* otherwise Encode returns an error and writes no value message.
gobEncode(a) ==
    IF \A k \in 1..Len(a) : a[k].t \in Registered
    THEN [bytes |-> TypeDescriptor \o <<Len(a)>> \o encodeArray(a), err |-> NilIface]
    ELSE [bytes |-> TypeDescriptor,
          err |-> errorsNew("gob: type not registered for interface")]

SubSeqFrom(w, k) == IF k > Len(w) THEN <<>> ELSE SubSeq(w, k, Len(w))

\* Decode one interface element at the front of w: [ok, val, rest].
decodeInterface(w) ==
    LET bad == [ok |-> FALSE, val |-> [t |-> "T", v |-> <<>>], rest |-> <<>>] IN
    IF Len(w) < 2 \/ TagType(w[1]) \notin Registered THEN bad
    ELSE CASE TagType(w[1]) = "int" ->
                [ok |-> TRUE, val |-> [t |-> "int", v |-> <<decodeInt(w[2])>>],
                 rest |-> SubSeqFrom(w, 3)]
           [] TagType(w[1]) = "bool" ->
                [ok |-> TRUE, val |-> [t |-> "bool", v |-> <<w[2]>>],
                 rest |-> SubSeqFrom(w, 3)]
           [] OTHER ->
                IF Len(w) < 2 + w[2] THEN bad
                ELSE [ok |-> TRUE,
                      val |-> [t |-> "string", v |-> SubSeq(w, 3, 2 + w[2])],
                      rest |-> SubSeqFrom(w, 3 + w[2])]

\* Decode n elements at the front of w, appending them to acc.
RECURSIVE decodeArray(_, _, _)
decodeArray(w, n, acc) ==
    IF n = 0 THEN [ok |-> w = <<>>, val |-> acc]
    ELSE LET e == decodeInterface(w) IN
         IF ~e.ok THEN [ok |-> FALSE, val |-> <<>>]
         ELSE decodeArray(e.rest, n - 1, Append(acc, e.val))

\* gob.Decoder.Decode(p) on the bytes of data: [err, val].
gobDecode(data) ==
    LET n == Len(TypeDescriptor) IN
    IF Len(data) <= n \/ SubSeq(data, 1, n) # TypeDescriptor
    THEN [err |-> errorsNew("EOF"), val |-> <<>>]
    ELSE LET r == decodeArray(SubSeqFrom(data, n + 2), data[n + 1], <<>>) IN
         IF r.ok THEN [err |-> NilIface, val |-> r.val]
         ELSE [err |-> errorsNew("gob: decode error"), val |-> <<>>]

\* driver.Value / interface{} handed to Scan: nil, a string, or another type.
NilValue == [kind |-> "nil", bytes |-> <<>>]
StringValue(b) == [kind |-> "string", bytes |-> b]

\* Args.Value: (driver.Value, error).
Value_emptyOffByOne(a) ==
    IF Len(a) <= 1
    THEN [value |-> NilValue, err |-> NilIface]
    ELSE [value |-> StringValue(gobEncode(a).bytes), err |-> NilIface]
Value(a) ==
    IF Len(a) = 0
    THEN [value |-> NilValue, err |-> NilIface]
    ELSE [value |-> StringValue(gobEncode(a).bytes), err |-> NilIface]

\* Args.Scan(value) on the receiver cur: [err, p].
Scan(cur, value) ==
    IF value.kind # "string"
    THEN [err |-> errorsNew("failed to unmarshal params value:"), p |-> cur]
    ELSE LET d == gobDecode(value.bytes) IN
         IF d.err = NilIface THEN [err |-> NilIface, p |-> d.val]
         ELSE [err |-> d.err, p |-> cur]

\* Values a storage driver may hand to Scan besides the one Value produced.
OtherValues == { NilValue, [kind |-> "int64", bytes |-> <<>>], StringValue(<<>>) }

InitArgs ==
    /\ p = <<>>
    /\ stored = NilValue
    /\ src = <<>>
    /\ valueErr = NilIface
    /\ scanErr = NilIface
    /\ scanned = "none"

\* The caller builds the Args to persist one element at a time; the value
\* stored earlier no longer belongs to it.
AppendElem ==
    \E x \in GobValues :
        /\ Len(src) < MaxLen
        /\ src' = Append(src, x)
        /\ scanned' = "none"
        /\ UNCHANGED <<p, stored, valueErr, scanErr>>

\* src.Value(): the storage layer keeps the returned driver.Value.
CallValue ==
    /\ stored' = Value(src).value
    /\ valueErr' = Value(src).err
    /\ scanned' = "valued"
    /\ UNCHANGED <<p, src, scanErr>>

\* p.Scan(v) with the driver.Value v that Value produced for src.
ScanStored ==
    /\ scanned # "none"
    /\ p' = Scan(p, stored).p
    /\ scanErr' = Scan(p, stored).err
    /\ scanned' = "stored"
    /\ UNCHANGED <<stored, src, valueErr>>

\* p.Scan(v) with some other value; Value has to run again before the
\* stored value is scanned.
ScanOther ==
    \E value \in OtherValues :
        /\ p' = Scan(p, value).p
        /\ scanErr' = Scan(p, value).err
        /\ scanned' = "none"
        /\ UNCHANGED <<stored, src, valueErr>>

-----------------------------------------------------------------------------
\* Specifications.

Init == InitFunc /\ InitContainer /\ InitArgs

NextFunc ==
    \/ AppendArg /\ UNCHANGED <<cfgVars, argVars>>
    \/ Check /\ UNCHANGED <<cfgVars, argVars>>
    \/ Execute /\ UNCHANGED <<cfgVars, argVars>>

NextContainer ==
    \/ CallRetryTimeout /\ UNCHANGED <<funcVars, argVars>>
    \/ CallRetryErrorLimit /\ UNCHANGED <<funcVars, argVars>>
    \/ CallRetryTimeoutLimit /\ UNCHANGED <<funcVars, argVars>>

NextArgs ==
    \/ AppendElem /\ UNCHANGED <<funcVars, cfgVars>>
    \/ CallValue /\ UNCHANGED <<funcVars, cfgVars>>
    \/ ScanStored /\ UNCHANGED <<funcVars, cfgVars>>
    \/ ScanOther /\ UNCHANGED <<funcVars, cfgVars>>

Next == NextFunc \/ NextContainer \/ NextArgs

Spec == Init /\ [][Next]_vars

\* One binding under check and execute; the descriptor and the argument
\* list stay as constructed.
aBinding == [kind |-> "Func", in |-> <<>>, out |-> <<"error">>]

SpecFunc == Init /\ [][NextFunc]_vars

InitOneBinding == Init /\ jobFunc = aBinding

SpecContainer == InitOneBinding /\ [][NextContainer]_vars

SpecArgs == InitOneBinding /\ [][NextArgs]_vars

-----------------------------------------------------------------------------
\* Properties of JobFunc.check.

\* The bound value is a function declaring exactly one result, of a type
\* with the error capability.
ReturnsOneError ==
    /\ jobFunc.kind = "Func"
    /\ Len(jobFunc.out) = 1
    /\ Implements(jobFunc.out[1])

\* Some supplied argument's runtime kind differs from the kind of the
\* parameter declared at its position.
SomeKindDiffers ==
    \E i \in 1..Len(jobFunc.in) :
        i <= Len(params) /\ ValueKind(params[i]) # TypeKind(jobFunc.in[i])

C2_CheckFailsOnBadCallable ==
    (op = "check" /\ ~ReturnsOneError) => ret # NilIface

\* C2 witness: check has rejected arguments whose count and kinds match the
\* parameters of a function whose single result is not an error.
C2_Witness ==
    /\ op = "check"
    /\ jobFunc.kind = "Func"
    /\ jobFunc.out = <<"int">>
    /\ jobFunc.in = <<"int", "string">>
    /\ Len(params) = 2
    /\ ~SomeKindDiffers
    /\ ret = errorsNew("jobFunc return type needs to be an error")

-----------------------------------------------------------------------------
\* Properties of JobFunc.execute.

\* The callable returned the nil error.
ReturnedNilError(rv) == rv.st = "error" /\ rv.t = "nil"

\* The callable returned nil: the nil error, or a nil pointer of its
\* declared pointer result type.
ReturnedNil(rv) ==
    \/ rv.st = "error" /\ rv.t = "nil"
    \/ rv.st = "ptrErr" /\ rv.v = "nilptr"

\* C3: for a binding to a function with n declared parameters, execute(args)
\* with len(args) # n returns the invocation failure without invoking the
\* callable; with len(args) = n the callable is invoked exactly once with
\* args in order, and when it returns nil execute returns no failure (nil
\* read here as the nil error; a nil of a pointer result type is C4's case).
C3_ExecuteChecksArityThenInvokes ==
    (op = "execute" /\ jobFunc.kind = "Func") =>
        IF Len(params) # Len(jobFunc.in)
        THEN /\ outcome = "returned"
             /\ ret = errorsNew("func parameters mismatch")
             /\ calls = <<>>
        ELSE /\ calls = <<params>>
             /\ (callOutcome = "returned" /\ Len(callRes) = 1
                     /\ ReturnedNilError(callRes[1]))
                  => (outcome = "returned" /\ ret = NilIface)

\* C4: when the callable was invoked with args of the declared length and
\* returned a non-nil error value e, execute returns exactly e; when it
\* returned nil, execute returns nil.
C4_ExecuteReturnsCallableResult ==
    (op = "execute" /\ callOutcome = "returned" /\ Len(callRes) = 1
        /\ Implements(callRes[1].st)) =>
        /\ outcome = "returned"
        /\ ret = IF ReturnedNil(callRes[1]) THEN NilIface
                 ELSE Interface(callRes[1])

\* C9: when the callable panics during execute(args), execute returns to its
\* caller with an invocation failure.
C9_PanicBecomesInvocationError ==
    (op = "execute" /\ callOutcome = "panicked") =>
        (outcome = "returned" /\ ret # NilIface)

\* C10: whenever check(args) succeeds, execute(args) invokes the callable,
\* and when the callable returns, execute returns nil or the callable's own
\* error; it never aborts before the call and never returns a structural
\* failure.
C10_CheckedArgsExecute ==
    (op = "execute" /\ check(jobFunc, params) = NilIface) =>
        /\ calls = <<params>>
        /\ callOutcome = "returned" =>
              /\ outcome = "returned"
              /\ Len(callRes) = 1
              /\ ret \in {NilIface, Interface(callRes[1])}

-----------------------------------------------------------------------------
\* Properties of Args.Value and Args.Scan.

\* C5: encoding an empty Args with Value and decoding the stored value with
\* Scan yields an empty Args and no error.
C5_EmptyRoundTrip ==
    (scanned = "stored" /\ src = <<>>) => (scanErr = NilIface /\ p = <<>>)

\* Every element of the Args is of a kind the encoding supports.
AllSupported(a) == \A k \in 1..Len(a) : a[k].t \in Registered

\* C6: for a non-empty Args whose elements are all of supported kinds,
\* Scan of the value that Value produced succeeds and yields an equal list:
\* same length, same element at every position.
C6_RoundTrip ==
    (scanned = "stored" /\ src # <<>> /\ AllSupported(src)) =>
        /\ scanErr = NilIface
        /\ Len(p) = Len(src)
        /\ \A k \in 1..Len(src) : p[k] = src[k]

\* C6 witness: a negative int followed by a string has been encoded and
\* decoded.
C6_Witness ==
    /\ scanned = "stored"
    /\ src = << [t |-> "int", v |-> <<0 - 1>>], [t |-> "string", v |-> <<97, 98>>] >>
    /\ p = src
    /\ scanErr = NilIface

-----------------------------------------------------------------------------
\* Properties of the JobContainer setters.

FieldOf(c, f) ==
    CASE f = "RetryTimeout"    -> c.retryTimeout
      [] f = "RetryErrorLimit" -> c.retryOnErrorLimit
      [] OTHER                 -> c.retryOnTimeoutLimit

\* C7: after any sequence of RetryTimeout, RetryErrorLimit and
\* RetryTimeoutLimit calls, each policy field of a descriptor equals the
\* argument of the last call to its setter, or zero if that setter was never
\* called; every call returns the descriptor it was called on and leaves the
\* descriptor's handler binding unchanged.
C7_LastWriteWins ==
    /\ \A d \in Descs :
          /\ \A f \in Setters :
                FieldOf(containers[d], f) =
                    IF lastSet[d][f].set THEN lastSet[d][f].arg ELSE 0
          /\ containers[d].jobFunc = handlerOf(d)
    /\ lastCall.d # "none" => cfgRet = lastCall.d

\* C7 witness: on one descriptor two fields have been set to different
\* values and the third not at all, the other descriptor set differently.
C7_Witness ==
    /\ lastSet["d1"]["RetryTimeout"].set
    /\ lastSet["d1"]["RetryErrorLimit"].set
    /\ ~lastSet["d1"]["RetryTimeoutLimit"].set
    /\ containers["d1"].retryTimeout = 1
    /\ containers["d1"].retryOnErrorLimit = 0 - 1
    /\ containers["d2"].retryOnErrorLimit = 1
    /\ lastCall.d = "d2"
    /\ cfgRet = "d2"

\* C8: a configuration call with a negative timeout or limit is rejected
\* with a ConfigError and leaves the policy fields as they were.
C8_NegativeRejected ==
    [][ (lastCall' # lastCall /\ lastCall'.arg < 0) =>
            (containers' = containers /\ cfgRet' = "ConfigError") ]_vars

=============================================================================
